---- MODULE Spec2Model ----
(***************************************************************************)
(* Model of the document index of kb-portal (pdf_viewer_app.py): the      *)
(* PDFDocumentManager scan (scan_documents, add_document,                 *)
(* scan_release_zips), its read-only queries and the file-serving routes. *)
(*                                                                         *)
(* Strings are sequences of character codes (so that lower(), stem,       *)
(* suffix, split(), substring containment and string ordering are         *)
(* computed, not assumed); a path is a sequence of components.            *)
(* The Document fields 'modified' and 'absolute_path' (a timestamp and a  *)
(* second copy of path) are left out of the Document record.              *)
(***************************************************************************)
EXTENDS Integers, Sequences, FiniteSets, TLC

VARIABLES tree, pc, all_files, idx, product_manual_releases,
          knowledge_base_releases, release_zips, all_documents,
          doc_manager, last, resp, builds, first_lists

vars == <<tree, pc, all_files, idx, product_manual_releases,
          knowledge_base_releases, release_zips, all_documents,
          doc_manager, last, resp, builds, first_lists>>

index_vars == <<product_manual_releases, knowledge_base_releases,
                release_zips, all_documents>>

-----------------------------------------------------------------------------
(* Bounds *)

MaxFiles == 2
MaxBuilds == 2

-----------------------------------------------------------------------------
(* String literals used by the code, as character codes *)

s_productmanual == <<112, 114, 111, 100, 117, 99, 116, 109, 97, 110, 117, 97, 108>>
e_pdf == <<46, 112, 100, 102>>
e_mhtml == <<46, 109, 104, 116, 109, 108>>
e_mht == <<46, 109, 104, 116>>
e_zip == <<46, 122, 105, 112>>
e_rar == <<46, 114, 97, 114>>
e_7z == <<46, 55, 122>>
e_tar == <<46, 116, 97, 114>>
e_gz == <<46, 103, 122>>

scan_extensions == <<e_pdf, e_mhtml, e_mht, e_zip, e_rar, e_7z, e_tar, e_gz>>
archive_extensions == <<e_zip, e_rar, e_7z, e_tar, e_gz>>

-----------------------------------------------------------------------------
(* Python string and path primitives *)

Range(s) == {s[i] : i \in 1..Len(s)}

\* str.lower() on one character (ASCII letters)
LowerChar(c) == IF c \in 65..90 THEN c + 32 ELSE c

LowerStr(s) == [i \in 1..Len(s) |-> LowerChar(s[i])]

\* str.isspace() for one character
IsSpace(c) == c \in {9, 10, 11, 12, 13, 28, 29, 30, 31, 32, 133, 160}

\* str.endswith(suf)
EndsWith(s, suf) ==
  /\ Len(s) >= Len(suf)
  /\ SubSeq(s, Len(s) - Len(suf) + 1, Len(s)) = suf

\* t in s
IsSubstr(t, s) ==
  \E i \in 0..(Len(s) - Len(t)) : SubSeq(s, i + 1, i + Len(t)) = t

\* s < t for Python strings (code-point lexicographic order)
StrLess(s, t) ==
  \E i \in 1..(Len(s) + 1) :
    /\ i <= Len(t)
    /\ \A j \in 1..(i - 1) : s[j] = t[j]
    /\ (i = Len(s) + 1 \/ s[i] < t[i])

\* k < l for Python tuples of strings
KeyLess(k, l) ==
  \E i \in 1..(Len(k) + 1) :
    /\ i <= Len(l)
    /\ \A j \in 1..(i - 1) : k[j] = l[j]
    /\ (i = Len(k) + 1 \/ StrLess(k[i], l[i]))

\* str.rfind('.') + 1 (0 when there is no dot)
RFindDot(name) ==
  IF \E i \in 1..Len(name) : name[i] = 46
  THEN CHOOSE i \in 1..Len(name) :
         name[i] = 46 /\ \A j \in (i + 1)..Len(name) : name[j] # 46
  ELSE 0

\* pathlib PurePath.suffix
Suffix(name) ==
  LET i == RFindDot(name)
  IN IF 1 < i /\ i < Len(name) THEN SubSeq(name, i, Len(name)) ELSE <<>>

\* pathlib PurePath.stem
Stem(name) ==
  LET i == RFindDot(name)
  IN IF 1 < i /\ i < Len(name) THEN SubSeq(name, 1, i - 1) ELSE name

\* '/'.join(parts)
RECURSIVE JoinSlash(_)
JoinSlash(parts) ==
  IF Len(parts) = 0 THEN <<>>
  ELSE IF Len(parts) = 1 THEN parts[1]
  ELSE parts[1] \o <<47>> \o JoinSlash(Tail(parts))

\* str.strip()
RECURSIVE LStrip(_)
LStrip(s) == IF Len(s) > 0 /\ IsSpace(s[1]) THEN LStrip(Tail(s)) ELSE s

RECURSIVE RStrip(_)
RStrip(s) ==
  IF Len(s) > 0 /\ IsSpace(s[Len(s)]) THEN RStrip(SubSeq(s, 1, Len(s) - 1)) ELSE s

Strip(s) == RStrip(LStrip(s))

\* str.split() with no separator: maximal runs of non-whitespace
RECURSIVE SplitAcc(_, _, _)
SplitAcc(s, cur, acc) ==
  IF Len(s) = 0
  THEN IF Len(cur) > 0 THEN Append(acc, cur) ELSE acc
  ELSE IF IsSpace(s[1])
       THEN SplitAcc(Tail(s), <<>>, IF Len(cur) > 0 THEN Append(acc, cur) ELSE acc)
       ELSE SplitAcc(Tail(s), Append(cur, s[1]), acc)

Split(s) == SplitAcc(s, <<>>, <<>>)

\* sorted(seq, key=...): stable, ascending; key is a function on the elements
RECURSIVE InsertByKey(_, _, _)
InsertByKey(x, sorted, key) ==
  IF Len(sorted) = 0 THEN <<x>>
  ELSE IF KeyLess(key[x], key[sorted[1]])
       THEN <<x>> \o sorted
       ELSE <<sorted[1]>> \o InsertByKey(x, Tail(sorted), key)

RECURSIVE SortedAcc(_, _, _)
SortedAcc(s, acc, key) ==
  IF Len(s) = 0 THEN acc
  ELSE SortedAcc(Tail(s), InsertByKey(s[1], acc, key), key)

\* sorted(strings)
SortedStrings(S) ==
  CHOOSE q \in [1..Cardinality(S) -> S] :
    \A i, j \in 1..Cardinality(S) : i < j => StrLess(q[i], q[j])

-----------------------------------------------------------------------------
(* The directory tree under base_path: files as (path components relative  *)
(* to base_path, size).  Directories are the proper prefixes of the files. *)

n_ProductManual == <<80, 114, 111, 100, 117, 99, 116, 77, 97, 110, 117, 97, 108>>
n_S == <<83>>
n_A == <<65>>
n_KB == <<75, 66>>
n_sub == <<115, 117, 98>>
n_a_pdf == <<97, 46, 112, 100, 102>>
n_b_pdf == <<98, 46, 112, 100, 102>>
n_G_pdf == <<71, 46, 112, 100, 102>>
n_x_pdf == <<120, 46, 112, 100, 102>>
n_r_pdf == <<114, 46, 112, 100, 102>>
n_n_mht == <<110, 46, 109, 104, 116>>
n_c_mhtml == <<99, 46, 109, 104, 116, 109, 108>>
n_S_zip == <<83, 46, 122, 105, 112>>
n_A_zip == <<65, 46, 122, 105, 112>>
n_A_rar == <<65, 46, 114, 97, 114>>
n_B_tar_gz == <<66, 46, 116, 97, 114, 46, 103, 122>>
n_t_txt == <<116, 46, 116, 120, 116>>

File(parts, size) == [parts |-> parts, size |-> size]

\* candidate files of a tree; every tree is a small subset of these
Pool ==
  { File(<<n_ProductManual, n_S, n_a_pdf>>, 3),
    File(<<n_ProductManual, n_S_zip>>, 5),
    File(<<n_ProductManual, n_S, n_S_zip>>, 7),
    File(<<s_productmanual, n_S, n_a_pdf>>, 2),
    File(<<n_ProductManual, n_A, n_c_mhtml>>, 4),
    File(<<n_ProductManual, n_x_pdf>>, 1),
    File(<<n_KB, n_n_mht>>, 6),
    File(<<n_KB, n_sub, n_G_pdf>>, 8),
    File(<<n_KB, n_t_txt>>, 1),
    File(<<n_A, n_b_pdf>>, 2),
    File(<<n_A_zip>>, 9),
    File(<<n_A_rar>>, 10),
    File(<<n_B_tar_gz>>, 11),
    File(<<n_r_pdf>>, 1) }

Trees == {T \in SUBSET Pool : 1 <= Cardinality(T) /\ Cardinality(T) <= MaxFiles}

\* Path.is_dir() for a path relative to base_path
IsDir(T, p) ==
  \E f \in T : Len(f.parts) > Len(p) /\ SubSeq(f.parts, 1, Len(p)) = p

\* base_path, as absolute path components
base_path == <<<<107, 98>>>>

\* str(path) of an absolute path
PathStr(abs) == <<47>> \o JoinSlash(abs)

-----------------------------------------------------------------------------
(* scan_documents: enumeration *)

\* index in scan_extensions of the pattern "*<ext>" that a name matches, 0 if none
ExtIndex(name) ==
  IF \E k \in 1..Len(scan_extensions) : EndsWith(name, scan_extensions[k])
  THEN CHOOSE k \in 1..Len(scan_extensions) : EndsWith(name, scan_extensions[k])
  ELSE 0

Matched(T) == {f \in T : ExtIndex(f.parts[Len(f.parts)]) # 0}

\* all_files: extension by extension, rglob's order within one extension is
\* whatever the filesystem yields
Enumerations(T) ==
  LET M == Matched(T)
      n == Cardinality(M)
  IN { q \in [1..n -> M] :
         /\ \A i, j \in 1..n : i # j => q[i] # q[j]
         /\ \A i, j \in 1..n :
              i < j => ExtIndex(q[i].parts[Len(q[i].parts)])
                         <= ExtIndex(q[j].parts[Len(q[j].parts)]) }

-----------------------------------------------------------------------------
(* get_file_type *)

get_file_type(ext) ==
  LET e == LowerStr(ext)
  IN IF e = e_pdf THEN "pdf"
     ELSE IF e \in {e_mhtml, e_mht} THEN "mhtml"
     ELSE IF e \in {e_zip, e_rar, e_7z, e_tar, e_gz} THEN "archive"
     ELSE "unknown"

-----------------------------------------------------------------------------
(* format_size *)

\* str(n) for a natural number
RECURSIVE DecStr(_)
DecStr(n) == IF n < 10 THEN <<48 + n>> ELSE DecStr(n \div 10) \o <<48 + (n % 10)>>

\* f"{n / d:.1f}": n / d is exact in binary floating point (d is a power of
\* two), and the format rounds the exact value half to even
OneDecimal(n, d) ==
  LET t == (10 * n) \div d
      r == (10 * n) % d
      u == IF 2 * r > d \/ (2 * r = d /\ t % 2 = 1) THEN t + 1 ELSE t
  IN DecStr(u \div 10) \o <<46>> \o DecStr(u % 10)

format_size(size_bytes) ==
  IF size_bytes < 1024 THEN DecStr(size_bytes) \o <<32, 66>>
  ELSE IF size_bytes < 1024 * 1024 THEN OneDecimal(size_bytes, 1024) \o <<32, 75, 66>>
  ELSE IF size_bytes < 1024 * 1024 * 1024
       THEN OneDecimal(size_bytes, 1024 * 1024) \o <<32, 77, 66>>
  ELSE OneDecimal(size_bytes, 1024 * 1024 * 1024) \o <<32, 71, 66>>

-----------------------------------------------------------------------------
(* add_document *)

EmptyMap == [k \in {} |-> <<>>]

\* top_level_dir.lower() == 'productmanual'
is_product_manual(parts) == LowerStr(parts[1]) = s_productmanual

\* is_virtual_release without the test of the file type
is_virtual_release_any_type(parts) == Len(parts) = 2

\* len(parts) == 2 and get_file_type(file_path.suffix.lower()) == 'archive'
is_virtual_release(parts) ==
  /\ Len(parts) = 2
  /\ get_file_type(LowerStr(Suffix(parts[Len(parts)]))) = "archive"

\* the two early returns of add_document
add_document_returns(parts) ==
  \/ Len(parts) < 2
  \/ is_product_manual(parts) /\ ~is_virtual_release(parts) /\ Len(parts) < 3

release_name_of(parts) ==
  IF is_product_manual(parts)
  THEN IF is_virtual_release(parts) THEN Stem(parts[Len(parts)]) ELSE parts[2]
  ELSE parts[1]

relative_in_release_of(parts) ==
  IF is_product_manual(parts) /\ Len(parts) >= 3
  THEN JoinSlash(SubSeq(parts, 3, Len(parts)))
  ELSE IF is_product_manual(parts) /\ Len(parts) = 2
  THEN parts[2]
  ELSE JoinSlash(SubSeq(parts, 2, Len(parts)))

\* the doc_info record add_document builds for a file it does not drop
doc_info_of(f) ==
  LET parts == f.parts
      file_name == parts[Len(parts)]
  IN [name |-> file_name,
      path |-> PathStr(base_path \o parts),
      relative_path |-> JoinSlash(parts),
      relative_in_release |-> relative_in_release_of(parts),
      size |-> f.size,
      size_human |-> format_size(f.size),
      release |-> release_name_of(parts),
      type |-> get_file_type(LowerStr(Suffix(file_name))),
      category |-> IF is_product_manual(parts) THEN "product_manual"
                   ELSE "knowledge_base"]

\* AppendTo with the list created anew on every call ("if release_name not in
\* target_releases" left out)
AppendTo_new_list(releases, release_name, doc) ==
  [k \in DOMAIN releases \cup {release_name} |->
     IF k = release_name THEN <<doc>> ELSE releases[k]]

\* target_releases[release_name].append(doc_info), creating the list if absent
AppendTo(releases, release_name, doc) ==
  IF release_name \in DOMAIN releases
  THEN [releases EXCEPT ![release_name] = Append(@, doc)]
  ELSE [k \in DOMAIN releases \cup {release_name} |->
          IF k = release_name THEN <<doc>> ELSE releases[k]]

-----------------------------------------------------------------------------
(* scan_release_zips *)

\* files directly in base_path that match glob("*<ext>") of an archive extension
RootArchives(T) ==
  {f \in T : /\ Len(f.parts) = 1
             /\ \E k \in 1..Len(archive_extensions) :
                  EndsWith(f.parts[1], archive_extensions[k])}

ArchiveExtIndex(f) ==
  CHOOSE k \in 1..Len(archive_extensions) : EndsWith(f.parts[1], archive_extensions[k])

zip_entry(f) ==
  [name |-> f.parts[1],
   path |-> PathStr(base_path \o f.parts),
   size |-> f.size,
   size_human |-> format_size(f.size),
   type |-> "archive",
   is_zip |-> TRUE]

\* the dict left by the two nested loops: a later assignment to the same
\* archive_name replaces the earlier one
release_zips_of(T) ==
  LET kept == {f \in RootArchives(T) : ~IsDir(T, <<Stem(f.parts[1])>>)}
      names == {Stem(f.parts[1]) : f \in kept}
      winner(nm) == CHOOSE f \in kept :
                      /\ Stem(f.parts[1]) = nm
                      /\ \A g \in kept : Stem(g.parts[1]) = nm
                                           => ArchiveExtIndex(g) <= ArchiveExtIndex(f)
  IN [nm \in names |-> zip_entry(winner(nm))]

-----------------------------------------------------------------------------
(* Read-only queries of PDFDocumentManager *)

\* the elements of a sequence s that satisfy the membership set keep
RECURSIVE Filter(_, _)
Filter(s, keep) ==
  IF Len(s) = 0 THEN <<>>
  ELSE IF s[1] \in keep THEN <<s[1]>> \o Filter(Tail(s), keep)
  ELSE Filter(Tail(s), keep)

RECURSIVE SumSizes(_)
SumSizes(s) == IF Len(s) = 0 THEN 0 ELSE s[1].size + SumSizes(Tail(s))

RECURSIVE SumSizeSet(_)
SumSizeSet(S) ==
  IF S = {} THEN 0
  ELSE LET x == CHOOSE x \in S : TRUE IN x.size + SumSizeSet(S \ {x})

get_releases(pm, kb, category) ==
  IF category = "product_manual" THEN SortedStrings(DOMAIN pm)
  ELSE IF category = "knowledge_base" THEN SortedStrings(DOMAIN kb)
  ELSE LET all_releases == SortedStrings(DOMAIN pm) \o SortedStrings(DOMAIN kb)
       IN SortedAcc(all_releases, <<>>, [r \in Range(all_releases) |-> <<r>>])

get_all_releases_with_zips(pm, kb, zips, category) ==
  LET releases ==
        IF category = "product_manual" THEN pm
        ELSE IF category = "knowledge_base" THEN kb
        ELSE [k \in DOMAIN pm \cup DOMAIN kb |->
                IF k \in DOMAIN kb THEN kb[k] ELSE pm[k]]
      names == SortedStrings(DOMAIN releases)
      dirs == [i \in 1..Len(names) |->
                 [name |-> names[i], type |-> "directory", is_zip |-> FALSE,
                  category |-> category, doc_count |-> Len(releases[names[i]])]]
      znames == SortedStrings(DOMAIN zips)
      zs == [i \in 1..Len(znames) |->
               [name |-> znames[i], type |-> "zip", is_zip |-> TRUE,
                category |-> "product_manual",
                size_human |-> zips[znames[i]].size_human,
                zip_path |-> zips[znames[i]].path]]
  IN IF category = "product_manual" THEN dirs \o zs ELSE dirs

\* get_release_documents without the tests of category
get_release_documents_any_category(pm, kb, release, category) ==
  IF release \in DOMAIN pm
  THEN SortedAcc(pm[release], <<>>,
                 [d \in Range(pm[release]) |-> <<d.relative_in_release>>])
  ELSE IF release \in DOMAIN kb
  THEN SortedAcc(kb[release], <<>>,
                 [d \in Range(kb[release]) |-> <<d.relative_in_release>>])
  ELSE <<>>

get_release_documents(pm, kb, release, category) ==
  IF category = "product_manual" /\ release \in DOMAIN pm
  THEN SortedAcc(pm[release], <<>>,
                 [d \in Range(pm[release]) |-> <<d.relative_in_release>>])
  ELSE IF category = "knowledge_base" /\ release \in DOMAIN kb
  THEN SortedAcc(kb[release], <<>>,
                 [d \in Range(kb[release]) |-> <<d.relative_in_release>>])
  ELSE <<>>

\* ' '.join([release.lower(), name.lower(), relative_in_release.lower()])
search_text(doc) ==
  LowerStr(doc.release) \o <<32>> \o LowerStr(doc.name) \o <<32>>
    \o LowerStr(doc.relative_in_release)

\* query_too_short without query.strip()
query_too_short_unstripped(query) == Len(query) < 2

\* not query or len(query.strip()) < 2
query_too_short(query) == Len(query) = 0 \/ Len(Strip(query)) < 2

\* doc_matches with any() in place of all()
doc_matches_any(doc, query_terms) ==
  \E i \in 1..Len(query_terms) : IsSubstr(query_terms[i], search_text(doc))

\* all(term in search_text for term in query_terms)
doc_matches(doc, query_terms) ==
  \A i \in 1..Len(query_terms) : IsSubstr(query_terms[i], search_text(doc))

search_documents(docs, query) ==
  IF query_too_short(query) THEN <<>>
  ELSE LET query_terms == Split(LowerStr(query))
           matching == {d \in Range(docs) : doc_matches(d, query_terms)}
           results == Filter(docs, matching)
       IN SortedAcc(results, <<>>,
                    [d \in Range(results) |-> <<d.release, d.relative_in_release>>])

get_stats(pm, kb, zips, docs, category) ==
  LET product_manual_docs ==
        Filter(docs, {d \in Range(docs) : d.category = "product_manual"})
      knowledge_base_docs ==
        Filter(docs, {d \in Range(docs) : d.category = "knowledge_base"})
      filtered_docs ==
        IF category = "product_manual" THEN product_manual_docs
        ELSE IF category = "knowledge_base" THEN knowledge_base_docs
        ELSE docs
      release_count ==
        IF category = "product_manual" THEN Cardinality(DOMAIN pm)
        ELSE IF category = "knowledge_base" THEN Cardinality(DOMAIN kb)
        ELSE Cardinality(DOMAIN pm) + Cardinality(DOMAIN kb)
      total_doc_size == SumSizes(filtered_docs)
      types == {filtered_docs[i].type : i \in 1..Len(filtered_docs)}
      of_type(t) == Filter(filtered_docs, {d \in Range(filtered_docs) : d.type = t})
      filtered_zips ==
        IF category = "product_manual"
        THEN {k \in DOMAIN zips : k \in DOMAIN pm}
        ELSE IF category = "knowledge_base"
        THEN {k \in DOMAIN zips : k \in DOMAIN kb}
        ELSE DOMAIN zips
      total_zip_size == SumSizeSet({zips[k] : k \in filtered_zips})
  IN [product_manual_count |-> Cardinality(DOMAIN pm),
      product_manual_doc_count |-> Len(product_manual_docs),
      knowledge_base_count |-> Cardinality(DOMAIN kb),
      knowledge_base_doc_count |-> Len(knowledge_base_docs),
      release_folders_count |-> release_count,
      release_folders_doc_count |-> Len(filtered_docs),
      release_folders_total_size |-> total_doc_size,
      release_folders_total_size_human |-> format_size(total_doc_size),
      release_zips_count |-> Cardinality(filtered_zips),
      release_zips_total_size |-> total_zip_size,
      release_zips_total_size_human |-> format_size(total_zip_size),
      type_stats |-> [t \in types |->
                        [count |-> Len(of_type(t)),
                         size_human |-> format_size(SumSizes(of_type(t)))]],
      total_releases |-> release_count,
      total_pdfs |-> Len(Filter(filtered_docs,
                                {d \in Range(filtered_docs) : d.type = "pdf"})),
      total_size |-> total_doc_size]

-----------------------------------------------------------------------------
(* Construction of the manager and start of the server *)

NoCall == [called |-> FALSE, parts |-> <<>>, appended |-> FALSE]
NoResp == [op |-> "none"]

Init ==
  /\ tree \in Trees
  /\ pc = "scan"
  /\ all_files = <<>>
  /\ idx = 1
  /\ product_manual_releases = EmptyMap
  /\ knowledge_base_releases = EmptyMap
  /\ release_zips = EmptyMap
  /\ all_documents = <<>>
  /\ doc_manager = "None"
  /\ last = NoCall
  /\ resp = NoResp
  /\ builds = 1
  /\ first_lists = EmptyMap

\* scan_documents, lines 74-77: collect all_files
ScanDocuments ==
  /\ pc = "scan"
  /\ all_files' \in Enumerations(tree)
  /\ idx' = 1
  /\ pc' = "add"
  /\ UNCHANGED <<tree, index_vars, doc_manager, last, resp, builds, first_lists>>

\* one iteration of "for file in all_files: self.add_document(file)"
AddDocument ==
  /\ pc = "add"
  /\ idx <= Len(all_files)
  /\ LET f == all_files[idx]
         doc_info == doc_info_of(f)
     IN /\ IF add_document_returns(f.parts)
           THEN UNCHANGED <<product_manual_releases, knowledge_base_releases,
                            all_documents>>
           ELSE /\ IF is_product_manual(f.parts)
                   THEN /\ product_manual_releases' =
                             AppendTo(product_manual_releases, doc_info.release, doc_info)
                        /\ UNCHANGED knowledge_base_releases
                   ELSE /\ knowledge_base_releases' =
                             AppendTo(knowledge_base_releases, doc_info.release, doc_info)
                        /\ UNCHANGED product_manual_releases
                /\ all_documents' = Append(all_documents, doc_info)
        /\ last' = [called |-> TRUE, parts |-> f.parts,
                    appended |-> ~add_document_returns(f.parts)]
  /\ idx' = idx + 1
  /\ UNCHANGED <<tree, pc, all_files, release_zips, doc_manager, resp, builds,
                 first_lists>>

\* add_document raises: file_path.stat() fails for a file that is not dropped
\* (a dangling link, a file removed or made unreadable since rglob listed it);
\* nothing catches the exception in the constructor, init_app or main, and
\* the process ends before app.run
AddDocumentRaises ==
  /\ pc = "add"
  /\ idx <= Len(all_files)
  /\ ~add_document_returns(all_files[idx].parts)
  /\ pc' = "crashed"
  /\ UNCHANGED <<tree, all_files, idx, index_vars, doc_manager, last, resp, builds,
                 first_lists>>

\* end of the loop, then scan_release_zips; the constructor returns
ScanReleaseZips ==
  /\ pc = "add"
  /\ idx > Len(all_files)
  /\ release_zips' = release_zips_of(tree)
  /\ pc' = "constructed"
  /\ UNCHANGED <<tree, all_files, idx, product_manual_releases,
                 knowledge_base_releases, all_documents, doc_manager, last, resp,
                 builds, first_lists>>

\* init_app with the manager assigned to the global while scan_documents is
\* still running
InitApp_during_scan ==
  /\ pc = "add"
  /\ doc_manager' = "manager"
  /\ pc' = "published"
  /\ UNCHANGED <<tree, all_files, idx, index_vars, last, resp, builds, first_lists>>

\* init_app: the global doc_manager is assigned the constructed manager
InitApp ==
  /\ pc = "constructed"
  /\ doc_manager' = "manager"
  /\ pc' = "published"
  /\ UNCHANGED <<tree, all_files, idx, index_vars, last, resp, builds, first_lists>>

\* main: app.run(...) starts serving requests
AppRun ==
  /\ pc = "published"
  /\ pc' = "serving"
  /\ UNCHANGED <<tree, all_files, idx, index_vars, doc_manager, last, resp, builds,
                 first_lists>>

-----------------------------------------------------------------------------
(* Requests served once app.run is running; each leaves its answer in resp *)

Categories == {"product_manual", "knowledge_base"}

\* release names asked for: known ones and one that is in no tree
ReleaseNames == {n_S, n_A, n_KB, <<90>>}

\* query strings
Queries ==
  { <<>>, <<32>>, <<97>>, <<32, 97, 9>>, <<32, 32, 32>>,
    <<115, 32, 112, 100, 102>>,
    <<83, 32, 32, 65, 46, 80, 68, 70>>,
    <<103, 46, 112, 100, 102, 32, 115, 117, 98>>,
    <<122, 122>>,
    <<107, 98, 32, 32>>,
    <<46, 122, 105>>,
    <<97, 32, 115>> }

\* get_release_documents with releases[release].sort(key=...) in place of
\* sorted(releases[release], key=...)
stored_after_sort_in_place(releases, release) ==
  IF release \in DOMAIN releases
  THEN [releases EXCEPT ![release] =
          SortedAcc(@, <<>>, [d \in Range(@) |-> <<d.relative_in_release>>])]
  ELSE releases

\* the map a release list was read from, after get_release_documents:
\* sorted() builds a new list and the stored list stays as it was
stored_after_sorted(releases, release) == releases

ListDocuments ==
  /\ pc = "serving"
  /\ \E category \in Categories \cup {"other"}, release \in ReleaseNames :
       /\ resp' = [op |-> "get_release_documents", category |-> category,
                   release |-> release,
                   result |-> get_release_documents(product_manual_releases,
                                knowledge_base_releases, release, category)]
       /\ product_manual_releases' =
            IF category = "product_manual"
            THEN stored_after_sorted(product_manual_releases, release)
            ELSE product_manual_releases
       /\ knowledge_base_releases' =
            IF category = "knowledge_base"
            THEN stored_after_sorted(knowledge_base_releases, release)
            ELSE knowledge_base_releases
  /\ UNCHANGED <<tree, pc, all_files, idx, release_zips, all_documents,
                 doc_manager, last, builds, first_lists>>

ListReleases ==
  /\ pc = "serving"
  /\ \E category \in Categories \cup {"other"} :
       resp' = [op |-> "get_releases", category |-> category,
                result |-> get_releases(product_manual_releases,
                             knowledge_base_releases, category)]
  /\ UNCHANGED <<tree, pc, all_files, idx, index_vars, doc_manager, last, builds,
                 first_lists>>

ListReleasesWithZips ==
  /\ pc = "serving"
  /\ \E category \in Categories \cup {"other"} :
       resp' = [op |-> "get_all_releases_with_zips", category |-> category,
                result |-> get_all_releases_with_zips(product_manual_releases,
                             knowledge_base_releases, release_zips, category)]
  /\ UNCHANGED <<tree, pc, all_files, idx, index_vars, doc_manager, last, builds,
                 first_lists>>

Search ==
  /\ pc = "serving"
  /\ \E query \in Queries :
       resp' = [op |-> "search_documents", query |-> query,
                result |-> search_documents(all_documents, query)]
  /\ UNCHANGED <<tree, pc, all_files, idx, index_vars, doc_manager, last, builds,
                 first_lists>>

\* the /api/search route
ApiSearch ==
  /\ pc = "serving"
  /\ \E query \in Queries :
       LET documents == IF Len(Strip(query)) < 2 THEN <<>>
                        ELSE search_documents(all_documents, query)
       IN resp' = [op |-> "api_search", query |-> query,
                   result |-> [i \in 1..Len(documents) |->
                     [doc |-> [name |-> documents[i].name,
                               relative_path |-> documents[i].relative_path,
                               size_human |-> documents[i].size_human,
                               type |-> documents[i].type,
                               category |-> documents[i].category],
                      product |-> documents[i].release,
                      version |-> documents[i].release,
                      module |-> documents[i].relative_in_release,
                      category |-> documents[i].category]]]
  /\ UNCHANGED <<tree, pc, all_files, idx, index_vars, doc_manager, last, builds,
                 first_lists>>

Stats ==
  /\ pc = "serving"
  /\ \E category \in Categories \cup {"None"} :
       resp' = [op |-> "get_stats", category |-> category,
                result |-> get_stats(product_manual_releases,
                             knowledge_base_releases, release_zips,
                             all_documents, category)]
  /\ UNCHANGED <<tree, pc, all_files, idx, index_vars, doc_manager, last, builds,
                 first_lists>>

\* the /release/<category>/<release> route; release is the URL-decoded name
view_release(pm, kb, zips, release, category) ==
  IF category = "product_manual" /\ release \in DOMAIN zips
  THEN [op |-> "view_release", category |-> category, release |-> release,
        status |-> 200, template |-> "zip_notice.html",
        zip_info |-> zips[release]]
  ELSE LET documents == get_release_documents(pm, kb, release, category)
       IN IF Len(documents) = 0
          THEN [op |-> "view_release", category |-> category,
                release |-> release, status |-> 404, template |-> "none"]
          ELSE [op |-> "view_release", category |-> category,
                release |-> release, status |-> 200,
                template |-> "release.html", documents |-> documents]

ViewRelease ==
  /\ pc = "serving"
  /\ \E category \in Categories, release \in ReleaseNames :
       resp' = view_release(product_manual_releases, knowledge_base_releases,
                            release_zips, release, category)
  /\ UNCHANGED <<tree, pc, all_files, idx, index_vars, doc_manager, last, builds,
                 first_lists>>

-----------------------------------------------------------------------------
(* File-serving routes.  The filesystem also holds files outside base_path. *)

n_dotdot == <<46, 46>>
n_etc == <<101, 116, 99>>
n_o_pdf == <<111, 46, 112, 100, 102>>
n_p_mht == <<112, 46, 109, 104, 116>>
n_Z == <<90>>

\* absolute paths of the files outside base_path
OutsideFiles == { <<n_o_pdf>>, <<n_etc, n_p_mht>> }

WorldFiles(T) == {base_path \o f.parts : f \in T} \cup OutsideFiles

WorldIsDir(T, p) ==
  \/ p = <<>>
  \/ \E w \in WorldFiles(T) : Len(w) > Len(p) /\ SubSeq(w, 1, Len(p)) = p

\* the operating system's resolution of an absolute path, '..' included:
\* every component is looked up in the directory reached so far
RECURSIVE Walk(_, _, _)
Walk(T, cur, rest) ==
  IF Len(rest) = 0 THEN [ok |-> TRUE, path |-> cur]
  ELSE IF ~WorldIsDir(T, cur) THEN [ok |-> FALSE, path |-> <<>>]
  ELSE IF rest[1] = n_dotdot
       THEN Walk(T, IF Len(cur) = 0 THEN cur ELSE SubSeq(cur, 1, Len(cur) - 1),
                 Tail(rest))
       ELSE Walk(T, Append(cur, rest[1]), Tail(rest))

\* full_path.exists() and full_path.is_file()
IsFile(T, full_path) ==
  LET r == Walk(T, <<>>, full_path) IN r.ok /\ r.path \in WorldFiles(T)

\* the values of the <path:file_path> URL variable, as components
RequestPaths ==
  { <<n_ProductManual, n_S, n_a_pdf>>,
    <<n_ProductManual, n_S, n_S_zip>>,
    <<n_KB, n_n_mht>>,
    <<n_A_zip>>,
    <<n_ProductManual>>,
    <<n_Z>>,
    <<n_dotdot, n_o_pdf>>,
    <<n_dotdot, n_etc, n_p_mht>>,
    <<n_KB, n_dotdot, n_dotdot, n_o_pdf>> }

\* send_file(str(full_path)): the file the operating system opens
Served(op, T, file_path, full_path) ==
  [op |-> op, file_path |-> file_path, status |-> 200,
   file |-> Walk(T, <<>>, full_path).path]

Refused(op, file_path, status) ==
  [op |-> op, file_path |-> file_path, status |-> status]

view_pdf(T, file_path) ==
  LET full_path == base_path \o file_path
  IN IF ~IsFile(T, full_path) THEN Refused("view_pdf", file_path, 404)
     ELSE IF ~EndsWith(LowerStr(PathStr(full_path)), e_pdf)
     THEN Refused("view_pdf", file_path, 400)
     ELSE Served("view_pdf", T, file_path, full_path)

view_mhtml(T, file_path) ==
  LET full_path == base_path \o file_path
  IN IF ~IsFile(T, full_path) THEN Refused("view_mhtml", file_path, 404)
     ELSE IF ~(\/ EndsWith(LowerStr(PathStr(full_path)), e_mhtml)
               \/ EndsWith(LowerStr(PathStr(full_path)), e_mht))
     THEN Refused("view_mhtml", file_path, 400)
     ELSE Served("view_mhtml", T, file_path, full_path)

download_archive(T, file_path) ==
  LET full_path == base_path \o file_path
  IN IF ~IsFile(T, full_path) THEN Refused("download_archive", file_path, 404)
     ELSE Served("download_archive", T, file_path, full_path)

download_file(T, file_path) ==
  LET full_path == base_path \o file_path
  IN IF ~IsFile(T, full_path) THEN Refused("download_file", file_path, 404)
     ELSE Served("download_file", T, file_path, full_path)

ViewPdf ==
  /\ pc = "serving"
  /\ \E file_path \in RequestPaths : resp' = view_pdf(tree, file_path)
  /\ UNCHANGED <<tree, pc, all_files, idx, index_vars, doc_manager, last, builds,
                 first_lists>>

ViewMhtml ==
  /\ pc = "serving"
  /\ \E file_path \in RequestPaths : resp' = view_mhtml(tree, file_path)
  /\ UNCHANGED <<tree, pc, all_files, idx, index_vars, doc_manager, last, builds,
                 first_lists>>

DownloadArchive ==
  /\ pc = "serving"
  /\ \E file_path \in RequestPaths : resp' = download_archive(tree, file_path)
  /\ UNCHANGED <<tree, pc, all_files, idx, index_vars, doc_manager, last, builds,
                 first_lists>>

DownloadFile ==
  /\ pc = "serving"
  /\ \E file_path \in RequestPaths : resp' = download_file(tree, file_path)
  /\ UNCHANGED <<tree, pc, all_files, idx, index_vars, doc_manager, last, builds,
                 first_lists>>

-----------------------------------------------------------------------------
(* A restart of the server process on the same, unchanged tree: main runs  *)
(* init_app again and a new manager is built from scratch.  first_lists    *)
(* records what get_release_documents returned for every release of the   *)
(* first build.                                                            *)

AllLists(pm, kb) ==
  [product_manual |->
     [r \in DOMAIN pm |-> get_release_documents(pm, kb, r, "product_manual")],
   knowledge_base |->
     [r \in DOMAIN kb |-> get_release_documents(pm, kb, r, "knowledge_base")]]

Restart ==
  /\ pc = "serving"
  /\ builds < MaxBuilds
  /\ builds' = builds + 1
  /\ first_lists' = IF builds = 1
                    THEN AllLists(product_manual_releases, knowledge_base_releases)
                    ELSE first_lists
  /\ pc' = "scan"
  /\ all_files' = <<>>
  /\ idx' = 1
  /\ product_manual_releases' = EmptyMap
  /\ knowledge_base_releases' = EmptyMap
  /\ release_zips' = EmptyMap
  /\ all_documents' = <<>>
  /\ doc_manager' = "None"
  /\ last' = NoCall
  /\ resp' = NoResp
  /\ UNCHANGED tree

-----------------------------------------------------------------------------
(* Specifications *)

\* one run of the server process and the queries of the index
Next ==
  \/ ScanDocuments \/ AddDocument \/ AddDocumentRaises \/ ScanReleaseZips
  \/ InitApp \/ AppRun
  \/ ListDocuments \/ ListReleases \/ ListReleasesWithZips
  \/ Search \/ ApiSearch \/ Stats

Spec == Init /\ [][Next]_vars

\* one run of the server process, the release page and the file-serving routes
NextFiles ==
  \/ ScanDocuments \/ AddDocument \/ AddDocumentRaises \/ ScanReleaseZips
  \/ InitApp \/ AppRun
  \/ ViewRelease \/ ViewPdf \/ ViewMhtml \/ DownloadArchive \/ DownloadFile

SpecFiles == Init /\ [][NextFiles]_vars

\* the server process restarted on the unchanged tree
NextRestart ==
  \/ ScanDocuments \/ AddDocument \/ AddDocumentRaises \/ ScanReleaseZips
  \/ InitApp \/ AppRun
  \/ ListDocuments \/ Restart

SpecRestart == Init /\ [][NextRestart]_vars

-----------------------------------------------------------------------------
(* Properties *)

Built == pc \in {"constructed", "published", "serving"}

ArchiveExts == {archive_extensions[k] : k \in 1..Len(archive_extensions)}

\* the name is an archive by its (lower-cased) extension
IsArchiveName(name) == LowerStr(Suffix(name)) \in ArchiveExts

\* length of a string after trimming leading and trailing whitespace
TrimmedLen(q) ==
  LET solid == {i \in 1..Len(q) : ~IsSpace(q[i])}
  IN IF solid = {} THEN 0
     ELSE (CHOOSE i \in solid : \A j \in solid : j <= i)
            - (CHOOSE i \in solid : \A j \in solid : i <= j) + 1

\* the whitespace-separated terms of the lower-cased query
Terms(q) ==
  LET lq == LowerStr(q)
  IN { SubSeq(lq, i, j) : <<i, j>> \in
         { ij \in (1..Len(q)) \X (1..Len(q)) :
             /\ ij[1] <= ij[2]
             /\ \A k \in ij[1]..ij[2] : ~IsSpace(lq[k])
             /\ (ij[1] = 1 \/ IsSpace(lq[ij[1] - 1]))
             /\ (ij[2] = Len(q) \/ IsSpace(lq[ij[2] + 1])) } }

\* s <= t in string order
StrLeq(s, t) == s = t \/ StrLess(s, t)

\* C1: add_document follows the ordered decision rule: fewer than 2 components
\* is discarded; under a first component equal to 'ProductManual' ignoring case,
\* a 2-component archive yields (product_manual, stem, file name), 3 or more
\* components yield (product_manual, 2nd component, rest joined with '/'), a
\* 2-component non-archive is discarded; every other path yields
\* (knowledge_base, 1st component, components from the 2nd joined with '/').
ThmC1 ==
  last.called =>
    LET parts == last.parts
        n == Len(parts)
        pm == LowerStr(parts[1]) = s_productmanual
        discarded == n < 2 \/ (pm /\ n = 2 /\ ~IsArchiveName(parts[n]))
        doc == all_documents[Len(all_documents)]
        expect(category, release, rel) ==
          /\ doc.category = category
          /\ doc.release = release
          /\ doc.relative_in_release = rel
          /\ doc.relative_path = JoinSlash(parts)
          /\ LET target == IF category = "product_manual"
                           THEN product_manual_releases
                           ELSE knowledge_base_releases
             IN /\ release \in DOMAIN target
                /\ target[release][Len(target[release])] = doc
    IN /\ last.appended = ~discarded
       /\ ~discarded =>
            IF pm /\ n = 2
            THEN expect("product_manual", Stem(parts[2]), parts[2])
            ELSE IF pm
            THEN expect("product_manual", parts[2], JoinSlash(SubSeq(parts, 3, n)))
            ELSE expect("knowledge_base", parts[1], JoinSlash(SubSeq(parts, 2, n)))

\* an archive directly under ProductManual has just been added as a release
WitC1 ==
  /\ last.called /\ last.appended
  /\ Len(last.parts) = 2
  /\ LowerStr(last.parts[1]) = s_productmanual
  /\ all_documents[Len(all_documents)].release = n_S

\* C2: when the directory ProductManual/<S>/ holds indexed files and the archive
\* ProductManual/<S>.<archive-ext> exists too, listDocuments(product_manual, S)
\* does not contain the archive, only documents found under ProductManual/<S>/.
ClaimC2 ==
  Built =>
    \A a \in tree :
      ( /\ Len(a.parts) = 2
        /\ LowerStr(a.parts[1]) = s_productmanual
        /\ IsArchiveName(a.parts[2])
        /\ \E g \in Matched(tree) :
             /\ Len(g.parts) >= 3
             /\ g.parts[1] = a.parts[1]
             /\ g.parts[2] = Stem(a.parts[2]) )
      => LET listed == get_release_documents(product_manual_releases,
                         knowledge_base_releases, Stem(a.parts[2]), "product_manual")
         IN \A i \in 1..Len(listed) :
              /\ listed[i].relative_path # JoinSlash(a.parts)
              /\ \E g \in tree :
                   /\ Len(g.parts) >= 3
                   /\ g.parts[2] = Stem(a.parts[2])
                   /\ listed[i].relative_path = JoinSlash(g.parts)

\* C3: after a build no two distinct Documents of the same (category, release)
\* have the same relative_in_release.
ClaimC3 ==
  Built =>
    \A i, j \in 1..Len(all_documents) :
      ( /\ i # j
        /\ all_documents[i].category = all_documents[j].category
        /\ all_documents[i].release = all_documents[j].release )
      => all_documents[i].relative_in_release # all_documents[j].relative_in_release

\* C4: for a query of trimmed length at least 2, search returns exactly the
\* Documents of allDocuments for which every lower-cased query term is a
\* substring of lower(release + ' ' + name + ' ' + relative_in_release), each
\* once, in ascending order of (release, relative_in_release).
ThmC4 ==
  (resp.op = "search_documents" /\ TrimmedLen(resp.query) >= 2) =>
    LET result == resp.result
        haystack(d) == LowerStr(d.release \o <<32>> \o d.name \o <<32>>
                                  \o d.relative_in_release)
        matches(d) == \A t \in Terms(resp.query) : IsSubstr(t, haystack(d))
    IN /\ \A i \in 1..Len(all_documents) :
            matches(all_documents[i]) <=>
              \E k \in 1..Len(result) : result[k] = all_documents[i]
       /\ \A k \in 1..Len(result) :
            \E i \in 1..Len(all_documents) : all_documents[i] = result[k]
       /\ \A k, l \in 1..Len(result) : k # l => result[k] # result[l]
       /\ \A k, l \in 1..Len(result) :
            k < l =>
              \/ StrLess(result[k].release, result[l].release)
              \/ /\ result[k].release = result[l].release
                 /\ StrLeq(result[k].relative_in_release,
                           result[l].relative_in_release)

\* a two-term query matched one Document and left another one out
WitC4 ==
  /\ resp.op = "search_documents"
  /\ Cardinality(Terms(resp.query)) = 2
  /\ Len(resp.result) = 1
  /\ Len(all_documents) = 2

\* C5: a query whose trimmed length is below 2 (the empty string and
\* whitespace-only strings included) gets the empty sequence, whatever the
\* index contains.
ThmC5 ==
  (resp.op \in {"search_documents", "api_search"} /\ TrimmedLen(resp.query) < 2)
    => resp.result = <<>>

\* a query of two characters that trims to one character which occurs in an
\* indexed Document
WitC5 ==
  /\ resp.op = "search_documents"
  /\ Len(resp.query) >= 2
  /\ TrimmedLen(resp.query) = 1
  /\ \E i \in 1..Len(all_documents) :
       \A t \in Terms(resp.query) : IsSubstr(t, search_text(all_documents[i]))

\* C6: listDocuments(category, release) returns exactly the Documents assigned
\* to that (category, release) during the scan, ascending by
\* relative_in_release, and the empty sequence when the release is not known
\* in that category.
ThmC6 ==
  resp.op = "get_release_documents" =>
    LET result == resp.result
        assigned == {i \in 1..Len(all_documents) :
                       /\ all_documents[i].category = resp.category
                       /\ all_documents[i].release = resp.release}
    IN /\ Len(result) = Cardinality(assigned)
       /\ \A i \in assigned : \E k \in 1..Len(result) : result[k] = all_documents[i]
       /\ \A k \in 1..Len(result) : \E i \in assigned : result[k] = all_documents[i]
       /\ \A k, l \in 1..Len(result) :
            k < l => StrLeq(result[k].relative_in_release,
                            result[l].relative_in_release)
       /\ assigned = {} => result = <<>>

\* a release of two Documents is listed in an order that is not the order of
\* insertion
WitC6 ==
  /\ resp.op = "get_release_documents"
  /\ resp.category = "product_manual"
  /\ Len(resp.result) = 2
  /\ resp.result # product_manual_releases[resp.release]

\* C7: after build every archive directly in the root whose stem names no root
\* directory has its own ArchiveEntry (file name and path retrievable), no root
\* archive whose stem names a root directory has one, and no root-level archive
\* is a Document.
ClaimC7 ==
  Built =>
    \A f \in RootArchives(tree) :
      /\ ~IsDir(tree, <<Stem(f.parts[1])>>) =>
           \E k \in DOMAIN release_zips :
             /\ release_zips[k].name = f.parts[1]
             /\ release_zips[k].path = PathStr(base_path \o f.parts)
      /\ IsDir(tree, <<Stem(f.parts[1])>>) =>
           \A k \in DOMAIN release_zips : release_zips[k].name # f.parts[1]
      /\ \A i \in 1..Len(all_documents) :
           all_documents[i].relative_path # JoinSlash(f.parts)

\* C8: the file-serving operations serve no file outside the root directory;
\* the PDF view serves only paths ending in .pdf and the MHTML view only paths
\* ending in .mhtml or .mht.
ClaimC8 ==
  (resp.op \in {"view_pdf", "view_mhtml", "download_archive", "download_file"}
     /\ resp.status = 200) =>
    /\ Len(resp.file) > Len(base_path)
    /\ SubSeq(resp.file, 1, Len(base_path)) = base_path
    /\ resp.op = "view_pdf" =>
         EndsWith(LowerStr(resp.file_path[Len(resp.file_path)]), e_pdf)
    /\ resp.op = "view_mhtml" =>
         \/ EndsWith(LowerStr(resp.file_path[Len(resp.file_path)]), e_mhtml)
         \/ EndsWith(LowerStr(resp.file_path[Len(resp.file_path)]), e_mht)

\* C9: a second build of the unchanged tree, whatever the order in which the
\* scanner enumerates the files, gives the same listDocuments output for every
\* (category, release).
ClaimC9 ==
  (Built /\ builds >= 2) =>
    AllLists(product_manual_releases, knowledge_base_releases) = first_lists

\* C10: stats('product_manual') reports the number and summed size of all
\* entries of releaseArchives, stats('knowledge_base') reports 0 and 0, and
\* stats() without category reports all entries.
ClaimC10 ==
  resp.op = "get_stats" =>
    LET all_count == Cardinality(DOMAIN release_zips)
        all_size == SumSizeSet({release_zips[k] : k \in DOMAIN release_zips})
    IN IF resp.category = "knowledge_base"
       THEN /\ resp.result.release_zips_count = 0
            /\ resp.result.release_zips_total_size = 0
       ELSE /\ resp.result.release_zips_count = all_count
            /\ resp.result.release_zips_total_size = all_size

\* C11: once the build has completed, the queries (listReleases,
\* listReleasesWithArchives, listDocuments, search, stats), in any number and
\* order, leave productManualReleases, knowledgeBaseReleases, releaseArchives
\* and allDocuments as the build left them: same keys, same lists in the same
\* order, same Documents.
ThmC11 ==
  [][(Built /\ Built') => index_vars' = index_vars]_vars

\* a search has returned two Documents in an order other than the order of
\* discovery kept by allDocuments
WitC11 ==
  /\ pc = "serving"
  /\ resp.op = "search_documents"
  /\ Len(resp.result) = 2
  /\ resp.result # all_documents

\* add_document drops the path: too few components for a release
Dropped(parts) ==
  \/ Len(parts) < 2
  \/ /\ LowerStr(parts[1]) = s_productmanual
     /\ Len(parts) = 2
     /\ ~IsArchiveName(parts[2])

\* every file of the tree has been enumerated and handed to add_document and
\* the root archives have been scanned
ScanComplete ==
  /\ Range(all_files) = Matched(tree)
  /\ idx = Len(all_files) + 1
  /\ Len(all_documents) = Cardinality({f \in Matched(tree) : ~Dropped(f.parts)})
  /\ \A f \in RootArchives(tree) :
       ~IsDir(tree, <<Stem(f.parts[1])>>) => Stem(f.parts[1]) \in DOMAIN release_zips

\* C12: the scan runs once, to completion (every add_document call, then the
\* archive-sibling scan), before any query can reach the index: the manager is
\* published and requests are served only after the constructor has returned,
\* no query sees a partially built index, the scan does not start again, and
\* after a failed scan the server is never started.
ThmC12 ==
  /\ [](doc_manager = "manager" => ScanComplete)
  /\ [](pc = "serving" => doc_manager = "manager")
  /\ [](resp.op # "none" => (pc = "serving" /\ ScanComplete))
  /\ [][pc' = "scan" => pc = "scan"]_vars
  /\ [][pc = "crashed" => (pc' = "crashed" /\ doc_manager' = "None")]_vars

\* the statistics of a fully built index of two Documents have been served
WitC12 ==
  /\ pc = "serving"
  /\ doc_manager = "manager"
  /\ resp.op = "get_stats"
  /\ resp.category = "None"
  /\ resp.result.release_folders_doc_count = 2

RECURSIVE SumLens(_, _)
SumLens(releases, keys) ==
  IF keys = {} THEN 0
  ELSE LET k == CHOOSE k \in keys : TRUE
       IN Len(releases[k]) + SumLens(releases, keys \ {k})

\* the places <<category, release, position>> of the release lists that hold d
PlacesOf(d) ==
  {<<"product_manual", r, k>> : <<r, k>> \in
      {rk \in (DOMAIN product_manual_releases) \X (1..Len(all_documents)) :
         /\ rk[2] <= Len(product_manual_releases[rk[1]])
         /\ product_manual_releases[rk[1]][rk[2]] = d}}
  \cup
  {<<"knowledge_base", r, k>> : <<r, k>> \in
      {rk \in (DOMAIN knowledge_base_releases) \X (1..Len(all_documents)) :
         /\ rk[2] <= Len(knowledge_base_releases[rk[1]])
         /\ knowledge_base_releases[rk[1]][rk[2]] = d}}

\* C13: during and after the scan the release maps and allDocuments agree:
\* every Document of allDocuments occurs exactly once in exactly one release
\* list, the one keyed by its release in the map of its category; every entry
\* of a release list is a Document of allDocuments; no key maps to an empty
\* list; the number of Documents equals the summed lengths of all lists.
ThmC13 ==
  /\ \A i, j \in 1..Len(all_documents) :
       i # j => all_documents[i] # all_documents[j]
  /\ \A i \in 1..Len(all_documents) :
       LET d == all_documents[i]
           places == PlacesOf(d)
       IN /\ Cardinality(places) = 1
          /\ \A p \in places : p[1] = d.category /\ p[2] = d.release
  /\ \A r \in DOMAIN product_manual_releases :
       /\ Len(product_manual_releases[r]) > 0
       /\ Range(product_manual_releases[r]) \subseteq Range(all_documents)
  /\ \A r \in DOMAIN knowledge_base_releases :
       /\ Len(knowledge_base_releases[r]) > 0
       /\ Range(knowledge_base_releases[r]) \subseteq Range(all_documents)
  /\ Len(all_documents) =
       SumLens(product_manual_releases, DOMAIN product_manual_releases)
         + SumLens(knowledge_base_releases, DOMAIN knowledge_base_releases)

\* in the middle of the scan: one release holds two Documents already and
\* the constructor has not returned
WitC13 ==
  /\ pc = "add"
  /\ Len(all_documents) = 2
  /\ \E r \in DOMAIN product_manual_releases : Len(product_manual_releases[r]) = 2

\* C14: after build listReleasesWithArchives('product_manual') never holds the
\* same name twice: no name is both a key of productManualReleases and a key
\* of releaseArchives, so viewing a Product-Manual release by name reaches its
\* documents and not the archive notice of a same-named archive entry.
ClaimC14 ==
  Built =>
    LET listing == get_all_releases_with_zips(product_manual_releases,
                     knowledge_base_releases, release_zips, "product_manual")
    IN /\ \A i, j \in 1..Len(listing) : i # j => listing[i].name # listing[j].name
       /\ DOMAIN product_manual_releases \cap DOMAIN release_zips = {}
       /\ ( /\ resp.op = "view_release"
            /\ resp.category = "product_manual"
            /\ resp.release \in DOMAIN product_manual_releases )
          => resp.template = "release.html"

====
